---- MODULE Spec2Model ----
(***************************************************************************)
(* Model of ross-db/src/table/fields.rs: the IntoSql rendering of column   *)
(* types (Field), field descriptors (TableField), table kinds (the blanket *)
(* AsRef<str> impl) and table descriptors (TableDefn) into a byte sink.    *)
(*                                                                         *)
(* Text is a sequence of one-character strings; the sink holds bytes       *)
(* (numbers).  str::as_bytes and String::from_utf8 are modelled on the     *)
(* ASCII alphabet of CharTable, where every character is one byte.         *)
(* One render call is one behaviour: Init chooses the entity, the entry    *)
(* point (into_sql on a caller-supplied writer, or into_sql_str on a fresh *)
(* Vec) and every step is one writer.write call of the code.               *)
(***************************************************************************)
EXTENDS Integers, Sequences, FiniteSets, TLC

VARIABLES
    root,         \* which impl the caller invoked: "TableDefn", "TableField", "Field", "TableKind"
    self,         \* the entity being rendered (&self of the root call)
    api,          \* "into_sql" (caller-supplied W: Write) or "into_sql_str" (fresh Vec)
    writer,       \* the bytes held by the sink
    shorts,       \* how many writes the sink has accepted only in part
    log,          \* history: every write call made, in order, with its outcome
    tpc,          \* position in TableDefn::into_sql ("none" when no such frame)
    index,        \* the for_each closure's index
    total_bytes,  \* TableDefn::into_sql's running total
    fpc,          \* position in TableField::into_sql ("none" when no such frame)
    ftotal,       \* TableField::into_sql's running total
    result,       \* what into_sql returned to its caller, once it has
    str_result    \* what into_sql_str returned to its caller, once it has

vars == <<root, self, api, writer, shorts, log, tpc, index, total_bytes, fpc, ftotal,
          result, str_result>>

----------------------------------------------------------------------------
(* Bounds of the exploration.                                              *)

\* longest field list of the enumerated tables (the test's table is added as is)
MaxFields == 2
\* how many writes of one render call the sink may accept only in part
MaxShort == 1

----------------------------------------------------------------------------
(* Text and bytes.                                                         *)

CharTable ==
    << <<"A", 65>>, <<"B", 66>>, <<"C", 67>>, <<"D", 68>>, <<"E", 69>>, <<"F", 70>>,
       <<"G", 71>>, <<"H", 72>>, <<"I", 73>>, <<"J", 74>>, <<"K", 75>>, <<"L", 76>>,
       <<"M", 77>>, <<"N", 78>>, <<"O", 79>>, <<"P", 80>>, <<"Q", 81>>, <<"R", 82>>,
       <<"S", 83>>, <<"T", 84>>, <<"U", 85>>, <<"V", 86>>, <<"W", 87>>, <<"X", 88>>,
       <<"Y", 89>>, <<"Z", 90>>, <<"a", 97>>, <<"b", 98>>, <<"c", 99>>, <<"d", 100>>,
       <<"e", 101>>, <<"f", 102>>, <<"g", 103>>, <<"h", 104>>, <<"i", 105>>, <<"j", 106>>,
       <<"k", 107>>, <<"l", 108>>, <<"m", 109>>, <<"n", 110>>, <<"o", 111>>, <<"p", 112>>,
       <<"q", 113>>, <<"r", 114>>, <<"s", 115>>, <<"t", 116>>, <<"u", 117>>, <<"v", 118>>,
       <<"w", 119>>, <<"x", 120>>, <<"y", 121>>, <<"z", 122>>, <<"0", 48>>, <<"1", 49>>,
       <<"2", 50>>, <<"3", 51>>, <<"4", 52>>, <<"5", 53>>, <<"6", 54>>, <<"7", 55>>,
       <<"8", 56>>, <<"9", 57>>, <<" ", 32>>, <<"(", 40>>, <<")", 41>>, <<",", 44>>,
       <<"\n", 10>>, <<"\t", 9>>, <<"_", 95>> >>

Chars == {CharTable[i][1] : i \in 1..Len(CharTable)}

Code == [c \in Chars |-> LET i == CHOOSE j \in 1..Len(CharTable) : CharTable[j][1] = c
                         IN  CharTable[i][2]]

Bytes == {CharTable[i][2] : i \in 1..Len(CharTable)}

CharOf == [b \in Bytes |-> CHOOSE c \in Chars : Code[c] = b]

\* str::as_bytes: the UTF-8 encoding of the text (one byte per ASCII character)
as_bytes(s) == [i \in 1..Len(s) |-> Code[s[i]]]

\* String::from_utf8: Ok(text) for valid bytes, Err otherwise
from_utf8(bytes) ==
    IF \A i \in 1..Len(bytes) : bytes[i] \in Bytes
    THEN [tag |-> "Ok", text |-> [i \in 1..Len(bytes) |-> CharOf[bytes[i]]]]
    ELSE [tag |-> "Err", text |-> <<>>]

\* char::to_uppercase on the alphabet: a lowercase letter's code is its capital's + 32
UpperChar(c) ==
    IF Code[c] >= 97 /\ Code[c] <= 122 THEN CharOf[Code[c] - 32] ELSE c

\* str::to_uppercase
to_uppercase(s) == [i \in 1..Len(s) |-> UpperChar(s[i])]

DigitChars == <<"0", "1", "2", "3", "4", "5", "6", "7", "8", "9">>

\* Display for usize, as format!("{}", n) prints it: decimal, no padding
RECURSIVE FormatUsize(_)
FormatUsize(n) ==
    IF n < 10 THEN <<DigitChars[n + 1]>>
    ELSE FormatUsize(n \div 10) \o <<DigitChars[(n % 10) + 1]>>

----------------------------------------------------------------------------
(* The string literals of the source.                                      *)

LitCreate == <<"C", "R", "E", "A", "T", "E", " ">>
LitSpace == <<" ">>
LitIfNotExists == <<" ", "I", "F", " ", "N", "O", "T", " ", "E", "X", "I", "S", "T", "S">>
LitOpen == <<" ", "(", "\n", "\t">>
LitSep == <<",", "\n", "\t">>
LitClose == <<"\n", ")">>
LitNull == <<"N", "U", "L", "L">>
LitNotNull == <<"N", "O", "T", " ", "N", "U", "L", "L">>
LitPrimaryKey == <<"P", "R", "I", "M", "A", "R", "Y", " ", "K", "E", "Y">>
LitUnique == <<"U", "N", "I", "Q", "U", "E">>
LitCharOpen == <<"C", "H", "A", "R", "(">>
LitBitOpen == <<"B", "I", "T", "(">>
LitParenClose == <<")">>
LitVarChar == <<"V", "A", "R", "C", "H", "A", "R">>
LitText == <<"T", "E", "X", "T">>
LitSerial == <<"S", "E", "R", "I", "A", "L">>
LitBigInt == <<"B", "I", "G", "I", "N", "T">>
LitBigSerial == <<"B", "I", "G", "S", "E", "R", "I", "A", "L">>
LitBoolean == <<"B", "O", "O", "L", "E", "A", "N">>

----------------------------------------------------------------------------
(* The data model: Field, CommonFieldOptions, TableField, TableKind,       *)
(* CommonTableOptions, TableDefn.                                          *)

\* Option<bool>
None == [is_some |-> FALSE, value |-> FALSE]
Some(b) == [is_some |-> TRUE, value |-> b]
OptionBool == {None, Some(TRUE), Some(FALSE)}

\* the lengths tried for Char { max_length } and Bit { length }
Lengths == {0, 1, 10}

\* enum Field; n is the variant's usize payload (0 for a variant without one)
Field ==
    {[variant |-> v, n |-> 0] :
        v \in {"VarChar", "Serial", "BigInt", "BigSerial", "Text", "Boolean"}}
    \cup {[variant |-> v, n |-> n] : v \in {"Char", "Bit"}, n \in Lengths}

\* the column names tried; the code accepts any String, the empty one included
FieldNames == {<<>>, <<"i", "d">>}

CommonFieldOptions ==
    [name : FieldNames, primary_key : BOOLEAN, unique : BOOLEAN, null : OptionBool]

TableField == [options : CommonFieldOptions, kind : Field]

\* enum TableKind, and "None" for an absent Option<TableKind>
TableKind == {"Global", "Local"}
OptionTableKind == {"None"} \cup TableKind

\* #[derive(AsRefStr)]: a variant's name
as_ref(kind) ==
    IF kind = "Global" THEN <<"G", "l", "o", "b", "a", "l">>
    ELSE <<"L", "o", "c", "a", "l">>

posts == <<"p", "o", "s", "t", "s">>

CommonTableOptions ==
    [name : {posts}, if_not_exists : BOOLEAN, kind : OptionTableKind]

\* the four fields of tests::table
PostsId ==
    [options |-> [name |-> <<"i", "d">>, primary_key |-> TRUE, unique |-> FALSE,
                  null |-> None],
     kind |-> [variant |-> "Serial", n |-> 0]]
PostsTitle ==
    [options |-> [name |-> <<"t", "i", "t", "l", "e">>, primary_key |-> FALSE,
                  unique |-> FALSE, null |-> Some(FALSE)],
     kind |-> [variant |-> "Char", n |-> 10]]
PostsBody ==
    [options |-> [name |-> <<"b", "o", "d", "y">>, primary_key |-> FALSE,
                  unique |-> FALSE, null |-> Some(FALSE)],
     kind |-> [variant |-> "Text", n |-> 0]]
PostsPublished ==
    [options |-> [name |-> <<"p", "u", "b", "l", "i", "s", "h", "e", "d">>,
                  primary_key |-> FALSE, unique |-> FALSE, null |-> Some(FALSE)],
     kind |-> [variant |-> "Boolean", n |-> 0]]

\* the table of tests::table
PostsTable ==
    [options |-> [name |-> posts, if_not_exists |-> TRUE, kind |-> "Global"],
     fields |-> <<PostsId, PostsTitle, PostsBody, PostsPublished>>]

\* the field descriptors the enumerated tables are built from
TableFieldChoices ==
    {PostsId,
     [options |-> [name |-> <<>>, primary_key |-> TRUE, unique |-> TRUE,
                   null |-> Some(TRUE)],
      kind |-> [variant |-> "Bit", n |-> 1]]}

FieldLists == UNION {[1..k -> TableFieldChoices] : k \in 0..MaxFields}

\* struct TableDefn: the tables rendered
TableDefn ==
    {[options |-> o, fields |-> fs] : o \in CommonTableOptions, fs \in FieldLists}
    \cup {PostsTable}

----------------------------------------------------------------------------
(* The pure parts of the three into_sql bodies.                            *)

\* mutant of data_type: the Bit arm opens with the Char arm's text
data_typeBitAsChar(kind) ==
    CASE kind.variant = "Char"      -> LitCharOpen \o FormatUsize(kind.n) \o LitParenClose
      [] kind.variant = "VarChar"   -> LitVarChar
      [] kind.variant = "Text"      -> LitText
      [] kind.variant = "Serial"    -> LitSerial
      [] kind.variant = "BigInt"    -> LitBigInt
      [] kind.variant = "BigSerial" -> LitBigSerial
      [] kind.variant = "Boolean"   -> LitBoolean
      [] kind.variant = "Bit"       -> LitCharOpen \o FormatUsize(kind.n) \o LitParenClose

\* Field::into_sql, the match that builds data_type
data_type(kind) ==
    CASE kind.variant = "Char"      -> LitCharOpen \o FormatUsize(kind.n) \o LitParenClose
      [] kind.variant = "VarChar"   -> LitVarChar
      [] kind.variant = "Text"      -> LitText
      [] kind.variant = "Serial"    -> LitSerial
      [] kind.variant = "BigInt"    -> LitBigInt
      [] kind.variant = "BigSerial" -> LitBigSerial
      [] kind.variant = "Boolean"   -> LitBoolean
      [] kind.variant = "Bit"       -> LitBitOpen \o FormatUsize(kind.n) \o LitParenClose

\* mutant of null_value: the two branches swapped
null_valueSwapped(null_constraint) == IF null_constraint THEN LitNotNull ELSE LitNull

\* TableField::into_sql, the text chosen for Some(null_constraint)
null_value(null_constraint) == IF null_constraint THEN LitNull ELSE LitNotNull

\* mutant of NotLast: a separator after every field
NotLastAlways(i, num_fields) == TRUE

\* the for_each closure's test, index != num_fields - 1
NotLast(i, num_fields) == i # num_fields - 1

\* whether the usize subtraction a - b overflows
Underflows(a, b) == a < b

\* mutant of Accumulate: total_bytes = n
AccumulateOverwrites(total, n) == n

\* total_bytes += n
Accumulate(total, n) == total + n

----------------------------------------------------------------------------
(* Results and the sink.                                                   *)

\* Result<usize, Box<dyn Error>>, or not returned yet, or unwound by a panic.
\* cause is the position in log of the rejected write an Err (or the panic of an
\* unwrap) carries; 0 otherwise.
Pending == [tag |-> "Pending", n |-> 0, cause |-> 0]
Ok(n) == [tag |-> "Ok", n |-> n, cause |-> 0]
Err(cause) == [tag |-> "Err", n |-> 0, cause |-> cause]
Panic(cause) == [tag |-> "Panic", n |-> 0, cause |-> cause]

\* What one call writer.write(buf) may do.  Write::write returns Ok(n) with
\* n <= buf.len() after taking the first n bytes, or Err after taking none.
\* The Vec of into_sql_str takes every byte; the W of into_sql is any writer:
\* it may also reject the write or take all bytes but the last.
Outcomes(buf) ==
    {[res |-> Len(buf), data |-> as_bytes(buf)]}
    \cup (IF api = "into_sql" THEN {[res |-> -1, data |-> <<>>]} ELSE {})
    \cup (IF api = "into_sql" /\ Len(buf) > 0 /\ shorts < MaxShort
          THEN {[res |-> Len(buf) - 1, data |-> SubSeq(as_bytes(buf), 1, Len(buf) - 1)]}
          ELSE {})

\* the effect of the call writer.write(buf) made at `at`, with outcome o
Written(buf, o, at) ==
    /\ writer' = writer \o o.data
    /\ shorts' = shorts + (IF o.res >= 0 /\ o.res < Len(buf) THEN 1 ELSE 0)
    /\ log' = Append(log, [buf |-> buf, res |-> o.res, at |-> at,
                           idx |-> IF tpc = "none" THEN -1 ELSE index])

----------------------------------------------------------------------------
(* TableField::into_sql.                                                   *)

\* the field whose frame is active
CurField == IF root = "TableField" THEN self ELSE self.fields[index + 1]

AfterPrimaryKey(f) == IF f.options.unique THEN "f_unique" ELSE "ret"
AfterNull(f) == IF f.options.primary_key THEN "f_pk" ELSE AfterPrimaryKey(f)
AfterKind(f) == IF f.options.null.is_some THEN "f_null" ELSE AfterNull(f)

\* the statement that follows a write that succeeded
FieldSucc(label, f) ==
    CASE label = "f_name"      -> "f_name_sp"
      [] label = "f_name_sp"   -> "f_kind"
      [] label = "f_kind"      -> "f_kind_sp"
      [] label = "f_kind_sp"   -> AfterKind(f)
      [] label = "f_null"      -> "f_null_sp"
      [] label = "f_null_sp"   -> AfterNull(f)
      [] label = "f_pk"        -> "f_pk_sp"
      [] label = "f_pk_sp"     -> AfterPrimaryKey(f)
      [] label = "f_unique"    -> "f_unique_sp"
      [] label = "f_unique_sp" -> "ret"

\* mutant of FieldAfter: a failed write is skipped over
FieldAfterIgnoresFailure(label, f, res) == FieldSucc(label, f)

\* the ? after each write: a failure returns at once
FieldAfter(label, f, res) == IF res < 0 THEN "ret" ELSE FieldSucc(label, f)

\* the bytes each statement offers to the writer
FieldBuf(label, f) ==
    CASE label = "f_name"   -> f.options.name
      [] label = "f_kind"   -> data_type(f.kind)
      [] label = "f_null"   -> null_value(f.options.null.value)
      [] label = "f_pk"     -> LitPrimaryKey
      [] label = "f_unique" -> LitUnique
      [] OTHER              -> LitSpace

\* mutant of ForEachFrom: an empty field list still gets one separator
ForEachFromSeparatorFirst(i, t) ==
    IF i < Len(t.fields)
    THEN [tpc |-> "field", fpc |-> "f_name", index |-> i]
    ELSE IF i = 0
    THEN [tpc |-> "sep", fpc |-> "none", index |-> i]
    ELSE [tpc |-> "close", fpc |-> "none", index |-> i]

\* the next iteration of self.fields.iter().enumerate().for_each, or the end of it
ForEachFrom(i, t) ==
    IF i < Len(t.fields)
    THEN [tpc |-> "field", fpc |-> "f_name", index |-> i]
    ELSE [tpc |-> "close", fpc |-> "none", index |-> i]

\* TableField::into_sql returns r: to the caller of the root call, or into the
\* closure of TableDefn::into_sql, which unwraps it, adds it and tests for the
\* last index
FieldReturns(r) ==
    IF root = "TableField"
    THEN /\ result' = r
         /\ fpc' = "none"
         /\ UNCHANGED <<tpc, index, total_bytes>>
    ELSE IF r.tag = "Err"
    THEN /\ result' = Panic(r.cause)
         /\ tpc' = "none"
         /\ fpc' = "none"
         /\ UNCHANGED <<index, total_bytes>>
    ELSE IF Underflows(Len(self.fields), 1)
    THEN \* num_fields - 1 overflows: a debug build panics, a release build wraps
         \/ /\ result' = Panic(0)
            /\ tpc' = "none"
            /\ fpc' = "none"
            /\ UNCHANGED <<index, total_bytes>>
         \/ /\ total_bytes' = Accumulate(total_bytes, r.n)
            /\ tpc' = "sep"
            /\ fpc' = "none"
            /\ UNCHANGED <<index, result>>
    ELSE /\ total_bytes' = Accumulate(total_bytes, r.n)
         /\ result' = result
         /\ IF NotLast(index, Len(self.fields))
            THEN /\ tpc' = "sep"
                 /\ fpc' = "none"
                 /\ index' = index
            ELSE LET nx == ForEachFrom(index + 1, self)
                 IN  /\ tpc' = nx.tpc
                     /\ fpc' = nx.fpc
                     /\ index' = nx.index

\* one statement total_bytes += writer.write(..)? of TableField::into_sql
FieldStep(label) ==
    /\ fpc = label
    /\ \E o \in Outcomes(FieldBuf(label, CurField)) :
         /\ Written(FieldBuf(label, CurField), o, label)
         /\ LET nxt == FieldAfter(label, CurField, o.res)
                t   == IF o.res < 0 THEN ftotal ELSE Accumulate(ftotal, o.res)
            IN  IF nxt = "ret"
                THEN /\ ftotal' = 0
                     /\ FieldReturns(IF o.res < 0 THEN Err(Len(log) + 1) ELSE Ok(t))
                ELSE /\ fpc' = nxt
                     /\ ftotal' = t
                     /\ UNCHANGED <<tpc, index, total_bytes, result>>
    /\ UNCHANGED <<root, self, api, str_result>>

FieldName == FieldStep("f_name")
FieldNameSpace == FieldStep("f_name_sp")
FieldKindSpace == FieldStep("f_kind_sp")
FieldNull == FieldStep("f_null")
FieldNullSpace == FieldStep("f_null_sp")
FieldPrimaryKey == FieldStep("f_pk")
FieldPrimaryKeySpace == FieldStep("f_pk_sp")
FieldUnique == FieldStep("f_unique")
FieldUniqueSpace == FieldStep("f_unique_sp")

\* Field::into_sql: called by TableField::into_sql (self.kind.into_sql(writer)?),
\* or by the caller of the root call
FieldIntoSql ==
    \/ FieldStep("f_kind")
    \/ /\ root = "Field"
       /\ result.tag = "Pending"
       /\ \E o \in Outcomes(data_type(self)) :
            /\ Written(data_type(self), o, "f_kind")
            /\ result' = IF o.res < 0 THEN Err(Len(log) + 1) ELSE Ok(o.res)
       /\ UNCHANGED <<root, self, api, tpc, index, total_bytes, fpc, ftotal, str_result>>

----------------------------------------------------------------------------
(* TableDefn::into_sql and the blanket impl for T: AsRef<str>.             *)

\* the statement that follows a write that succeeded
TableSucc(label, t) ==
    CASE label = "create"        -> IF t.options.kind # "None" THEN "kind" ELSE "name"
      [] label = "kind"          -> "kind_sp"
      [] label = "kind_sp"       -> "name"
      [] label = "name"          -> IF t.options.if_not_exists THEN "if_not_exists"
                                    ELSE "open"
      [] label = "if_not_exists" -> "open"
      [] label = "open"          -> "loop"
      [] label = "close"         -> "ret"

\* the ? after each write outside the closure: a failure returns at once
TableAfter(label, t, res) == IF res < 0 THEN "ret" ELSE TableSucc(label, t)

\* mutant of AsRefText: the variant's name as it is
AsRefTextAsIs(kind) == as_ref(kind)

\* the text the blanket impl writes: self.as_ref().to_uppercase()
AsRefText(kind) == to_uppercase(as_ref(kind))

\* the bytes each statement offers to the writer
TableBuf(label, t) ==
    CASE label = "create"        -> LitCreate
      [] label = "kind"          -> AsRefText(t.options.kind)
      [] label = "kind_sp"       -> LitSpace
      [] label = "name"          -> t.options.name
      [] label = "if_not_exists" -> LitIfNotExists
      [] label = "open"          -> LitOpen
      [] label = "close"         -> LitClose

\* one statement total_bytes += writer.write(..)? of TableDefn::into_sql
TableStep(label) ==
    /\ tpc = label
    /\ \E o \in Outcomes(TableBuf(label, self)) :
         /\ Written(TableBuf(label, self), o, label)
         /\ LET nxt == TableAfter(label, self, o.res)
                t   == IF o.res < 0 THEN total_bytes ELSE Accumulate(total_bytes, o.res)
            IN  /\ total_bytes' = t
                /\ CASE nxt = "ret" ->
                          /\ result' = IF o.res < 0 THEN Err(Len(log) + 1) ELSE Ok(t)
                          /\ tpc' = "none"
                          /\ UNCHANGED <<index, fpc>>
                     [] nxt = "loop" ->
                          LET nx == ForEachFrom(0, self)
                          IN  /\ tpc' = nx.tpc
                              /\ fpc' = nx.fpc
                              /\ index' = nx.index
                              /\ result' = result
                     [] OTHER ->
                          /\ tpc' = nxt
                          /\ UNCHANGED <<index, fpc, result>>
    /\ UNCHANGED <<root, self, api, ftotal, str_result>>

TableCreate == TableStep("create")
TableKindSpace == TableStep("kind_sp")
TableName == TableStep("name")
TableIfNotExists == TableStep("if_not_exists")
TableOpen == TableStep("open")
TableClose == TableStep("close")

\* the blanket into_sql: called by TableDefn::into_sql (kind.into_sql(writer)?),
\* or by the caller of the root call
AsRefIntoSql ==
    \/ TableStep("kind")
    \/ /\ root = "TableKind"
       /\ result.tag = "Pending"
       /\ \E o \in Outcomes(AsRefText(self)) :
            /\ Written(AsRefText(self), o, "kind")
            /\ result' = IF o.res < 0 THEN Err(Len(log) + 1) ELSE Ok(o.res)
       /\ UNCHANGED <<root, self, api, tpc, index, total_bytes, fpc, ftotal, str_result>>

\* the closure's total_bytes += writer.write(b",\n\t").unwrap()
TableSeparator ==
    /\ tpc = "sep"
    /\ \E o \in Outcomes(LitSep) :
         /\ Written(LitSep, o, "sep")
         /\ IF o.res < 0
            THEN /\ result' = Panic(Len(log) + 1)
                 /\ tpc' = "none"
                 /\ UNCHANGED <<index, total_bytes, fpc>>
            ELSE LET nx == ForEachFrom(index + 1, self)
                 IN  /\ total_bytes' = Accumulate(total_bytes, o.res)
                     /\ tpc' = nx.tpc
                     /\ fpc' = nx.fpc
                     /\ index' = nx.index
                     /\ result' = result
    /\ UNCHANGED <<root, self, api, ftotal, str_result>>

----------------------------------------------------------------------------
(* IntoSql::into_sql_str.                                                  *)

NoString == [tag |-> "Pending", text |-> <<>>, bytes_written |-> 0]

\* Ok((String::from_utf8(writer)?, bytes_written)), or the failure of into_sql
IntoSqlStrResult(r, bytes) ==
    IF r.tag = "Ok" /\ from_utf8(bytes).tag = "Ok"
    THEN [tag |-> "Ok", text |-> from_utf8(bytes).text, bytes_written |-> r.n]
    ELSE [tag |-> IF r.tag = "Panic" THEN "Panic" ELSE "Err", text |-> <<>>,
          bytes_written |-> 0]

IntoSqlStrReturn ==
    /\ api = "into_sql_str"
    /\ result.tag # "Pending"
    /\ str_result.tag = "Pending"
    /\ str_result' = IntoSqlStrResult(result, writer)
    /\ UNCHANGED <<root, self, api, writer, shorts, log, tpc, index, total_bytes, fpc,
                   ftotal, result>>

----------------------------------------------------------------------------
(* The specification.                                                      *)

Init ==
    /\ \/ root = "TableDefn" /\ self \in TableDefn
       \/ root = "TableField" /\ self \in TableField
       \/ root = "Field" /\ self \in Field
       \/ root = "TableKind" /\ self \in TableKind
    /\ api \in {"into_sql", "into_sql_str"}
    /\ writer = <<>>
    /\ shorts = 0
    /\ log = <<>>
    /\ tpc = IF root = "TableDefn" THEN "create" ELSE "none"
    /\ index = 0
    /\ total_bytes = 0
    /\ fpc = IF root = "TableField" THEN "f_name" ELSE "none"
    /\ ftotal = 0
    /\ result = Pending
    /\ str_result = NoString

Next ==
    \/ TableCreate
    \/ AsRefIntoSql
    \/ TableKindSpace
    \/ TableName
    \/ TableIfNotExists
    \/ TableOpen
    \/ TableSeparator
    \/ TableClose
    \/ FieldName
    \/ FieldNameSpace
    \/ FieldIntoSql
    \/ FieldKindSpace
    \/ FieldNull
    \/ FieldNullSpace
    \/ FieldPrimaryKey
    \/ FieldPrimaryKeySpace
    \/ FieldUnique
    \/ FieldUniqueSpace
    \/ IntoSqlStrReturn

Spec == Init /\ [][Next]_vars

----------------------------------------------------------------------------
(* The statements checked.  The expected texts below are written out from  *)
(* the specification, independently of the literals the model writes.      *)

Space == <<" ">>
SeparatorText == <<",", "\n", "\t">>

\* the column-type token of the specification's table; n printed verbatim
Verbatim(n) ==
    CASE n = 0  -> <<"0">>
      [] n = 1  -> <<"1">>
      [] n = 10 -> <<"1", "0">>

TypeToken(kind) ==
    CASE kind.variant = "Char"      -> <<"C", "H", "A", "R", "(">> \o Verbatim(kind.n) \o <<")">>
      [] kind.variant = "VarChar"   -> <<"V", "A", "R", "C", "H", "A", "R">>
      [] kind.variant = "Text"      -> <<"T", "E", "X", "T">>
      [] kind.variant = "Serial"    -> <<"S", "E", "R", "I", "A", "L">>
      [] kind.variant = "BigInt"    -> <<"B", "I", "G", "I", "N", "T">>
      [] kind.variant = "BigSerial" -> <<"B", "I", "G", "S", "E", "R", "I", "A", "L">>
      [] kind.variant = "Boolean"   -> <<"B", "O", "O", "L", "E", "A", "N">>
      [] kind.variant = "Bit"       -> <<"B", "I", "T", "(">> \o Verbatim(kind.n) \o <<")">>

NullToken == <<"N", "U", "L", "L">>
NotNullToken == <<"N", "O", "T", " ", "N", "U", "L", "L">>
PrimaryKeyToken == <<"P", "R", "I", "M", "A", "R", "Y", " ", "K", "E", "Y">>
UniqueToken == <<"U", "N", "I", "Q", "U", "E">>

\* the parts of a field clause, in the order of the specification
ClauseParts(f) ==
    <<f.options.name, Space, TypeToken(f.kind), Space>>
    \o (IF f.options.null = Some(TRUE) THEN <<NullToken, Space>>
        ELSE IF f.options.null = Some(FALSE) THEN <<NotNullToken, Space>>
        ELSE <<>>)
    \o (IF f.options.primary_key THEN <<PrimaryKeyToken, Space>> ELSE <<>>)
    \o (IF f.options.unique THEN <<UniqueToken, Space>> ELSE <<>>)

RECURSIVE Flatten(_)
Flatten(parts) == IF parts = <<>> THEN <<>> ELSE Head(parts) \o Flatten(Tail(parts))

FieldClause(f) == Flatten(ClauseParts(f))

RECURSIVE JoinClauses(_)
JoinClauses(fs) ==
    IF fs = <<>> THEN <<>>
    ELSE IF Len(fs) = 1 THEN FieldClause(fs[1])
    ELSE FieldClause(fs[1]) \o SeparatorText \o JoinClauses(Tail(fs))

KindToken(kind) ==
    IF kind = "Global" THEN <<"G", "L", "O", "B", "A", "L">> ELSE <<"L", "O", "C", "A", "L">>

TableHead(t) ==
    <<"C", "R", "E", "A", "T", "E", " ">>
    \o (IF t.options.kind # "None" THEN KindToken(t.options.kind) \o Space ELSE <<>>)
    \o t.options.name
    \o (IF t.options.if_not_exists
        THEN <<" ", "I", "F", " ", "N", "O", "T", " ", "E", "X", "I", "S", "T", "S">>
        ELSE <<>>)
    \o <<" ", "(", "\n", "\t">>

TableText(t) == TableHead(t) \o JoinClauses(t.fields) \o <<"\n", ")">>

\* the expected string of tests::table
ExpectedPosts ==
    <<"C", "R", "E", "A", "T", "E", " ", "G", "L", "O", "B", "A", "L", " ", "p", "o",
      "s", "t", "s", " ", "I", "F", " ", "N", "O", "T", " ", "E", "X", "I", "S", "T",
      "S", " ", "(", "\n", "\t", "i", "d", " ", "S", "E", "R", "I", "A", "L", " ", "P",
      "R", "I", "M", "A", "R", "Y", " ", "K", "E", "Y", " ", ",", "\n", "\t", "t", "i",
      "t", "l", "e", " ", "C", "H", "A", "R", "(", "1", "0", ")", " ", "N", "O", "T",
      " ", "N", "U", "L", "L", " ", ",", "\n", "\t", "b", "o", "d", "y", " ", "T", "E",
      "X", "T", " ", "N", "O", "T", " ", "N", "U", "L", "L", " ", ",", "\n", "\t", "p",
      "u", "b", "l", "i", "s", "h", "e", "d", " ", "B", "O", "O", "L", "E", "A", "N",
      " ", "N", "O", "T", " ", "N", "U", "L", "L", " ", "\n", ")">>

\* the canonical text of the entity of the root call
CanonicalText ==
    CASE root = "TableDefn"  -> TableText(self)
      [] root = "TableField" -> FieldClause(self)
      [] root = "Field"      -> TypeToken(self)
      [] root = "TableKind"  -> KindToken(self)

IsPrefix(a, b) == Len(a) <= Len(b) /\ a = SubSeq(b, 1, Len(a))

Returned == result.tag # "Pending"

\* every write so far was accepted whole
AllWhole == \A i \in 1..Len(log) : log[i].res = Len(log[i].buf)

FieldLabels ==
    {"f_name", "f_name_sp", "f_kind", "f_kind_sp", "f_null", "f_null_sp", "f_pk",
     "f_pk_sp", "f_unique", "f_unique_sp"}

\* the positions in log of the separator writes
SepPositions == {p \in 1..Len(log) : log[p].at = "sep"}

\* the bytes the sink took from one logged write
Accepted(e) == IF e.res < 0 THEN <<>> ELSE SubSeq(as_bytes(e.buf), 1, e.res)

RECURSIVE ConcatAccepted(_)
ConcatAccepted(l) == IF l = <<>> THEN <<>> ELSE Accepted(Head(l)) \o ConcatAccepted(Tail(l))

\* how many writes after the type token of a field render offered exactly tok
TokensAfterType(tok) == Cardinality({p \in 4..Len(log) : log[p].buf = tok})

----------------------------------------------------------------------------

\* C1: a table with one or more fields, rendered into a sink that accepts every
\* write, returns Ok and leaves exactly 'CREATE ' + (uppercase kind + ' ' when a
\* kind is present) + name + (' IF NOT EXISTS' when set) + ' (\n\t' + the field
\* clauses in order joined by ',\n\t' + '\n)'; the posts table of the test gives
\* the test's expected string; without a kind the name follows 'CREATE ' directly.
C1_TableRendersStatement ==
    (root = "TableDefn" /\ Len(self.fields) >= 1 /\ Returned /\ AllWhole) =>
        /\ result.tag = "Ok"
        /\ writer = as_bytes(TableText(self))
        /\ (self = PostsTable => from_utf8(writer).text = ExpectedPosts)
        /\ (self.options.kind = "None" =>
              IsPrefix(as_bytes(<<"C", "R", "E", "A", "T", "E", " ">> \o self.options.name),
                       writer))
        /\ (str_result.tag # "Pending" =>
              str_result.tag = "Ok" /\ str_result.text = TableText(self))

\* C1 witness: into_sql_str of the test's posts table has returned the expected string
C1_Witness ==
    /\ root = "TableDefn"
    /\ self = PostsTable
    /\ str_result.tag = "Ok"
    /\ str_result.text = ExpectedPosts

\* C2 (as claimed): whenever the sink rejects a write of a table render, be it a
\* write of a field clause, a separator, 'CREATE ' or the closing '\n)', the
\* render ends by returning that failure to its caller.
C2_RejectedWriteIsReturned ==
    (root = "TableDefn" /\ Len(log) > 0 /\ log[Len(log)].res < 0) =>
        result = Err(Len(log))

\* C3: a field rendered into a sink that accepts every write returns Ok after
\* writing, in this order and nothing else: name, ' ', type token, ' ', then the
\* nullability token and ' ' if nullable is specified, 'PRIMARY KEY' and ' ' iff
\* primary_key, 'UNIQUE' and ' ' iff unique; the clause ends with exactly one space.
C3_FieldClauseInOrder ==
    (root = "TableField" /\ Returned /\ AllWhole) =>
        /\ result.tag = "Ok"
        /\ [i \in 1..Len(log) |-> log[i].buf] = ClauseParts(self)
        /\ writer = as_bytes(FieldClause(self))
        /\ Len(writer) >= 2
        /\ writer[Len(writer)] = 32
        /\ writer[Len(writer) - 1] # 32

\* C3 witness: a CHAR(0) field with every optional part has been rendered
C3_Witness ==
    /\ root = "TableField"
    /\ result.tag = "Ok"
    /\ AllWhole
    /\ self.kind = [variant |-> "Char", n |-> 0]
    /\ self.options.null = Some(TRUE)
    /\ self.options.primary_key
    /\ self.options.unique
    /\ Len(log) = 10

\* C4: a successful render of a table with N >= 1 fields makes exactly N-1
\* separator writes ',\n\t' (none when N = 1), each directly after the last write
\* of field i's clause and directly before the first write of field i+1's, and
\* the last clause is followed directly by the closing '\n)'.
C4_SeparatorsOnlyBetweenFields ==
    (root = "TableDefn" /\ Len(self.fields) >= 1 /\ result.tag = "Ok") =>
        LET N == Len(self.fields)
        IN  /\ Cardinality(SepPositions) = N - 1
            /\ \A p \in SepPositions :
                 /\ log[p].buf = SeparatorText
                 /\ 1 < p /\ p < Len(log)
                 /\ log[p - 1].at \in FieldLabels
                 /\ log[p - 1].idx = log[p].idx
                 /\ log[p + 1].at = "f_name"
                 /\ log[p + 1].idx = log[p].idx + 1
                 /\ log[p].idx + 1 < N
            /\ \A p, q \in SepPositions : p # q => log[p].idx # log[q].idx
            /\ log[Len(log)].at = "close"
            /\ log[Len(log) - 1].at \in FieldLabels
            /\ log[Len(log) - 1].idx = N - 1

\* C4 witness: the four-field posts table has been rendered with three separators
C4_Witness ==
    /\ root = "TableDefn"
    /\ self = PostsTable
    /\ result.tag = "Ok"
    /\ Cardinality(SepPositions) = 3

\* C5: for every entity, the byte count into_sql_str returns beside the text is
\* the byte length of that text, and a render into a sink that accepts every
\* write returns the number of bytes the sink holds.
C5_CountIsTextLength ==
    /\ (str_result.tag # "Pending" =>
          /\ str_result.tag = "Ok"
          /\ str_result.bytes_written = Len(as_bytes(str_result.text)))
    /\ ((Returned /\ AllWhole) => result = Ok(Len(writer)))

\* C5 witness: into_sql_str of a two-field table has returned its text and count
C5_Witness ==
    /\ root = "TableDefn"
    /\ Len(self.fields) = 2
    /\ str_result.tag = "Ok"
    /\ str_result.bytes_written = Len(str_result.text)
    /\ str_result.bytes_written > 20

\* C6: in a rendered field clause the tokens after the type token hold no NULL
\* and no NOT NULL when nullable is unspecified, exactly one NULL and no NOT NULL
\* when it is true, exactly one NOT NULL and no NULL when it is false.
C6_NullabilityTriState ==
    (root = "TableField" /\ result.tag = "Ok") =>
        /\ log[3].at = "f_kind"
        /\ TokensAfterType(NullToken) = (IF self.options.null = Some(TRUE) THEN 1 ELSE 0)
        /\ TokensAfterType(NotNullToken) =
              (IF self.options.null = Some(FALSE) THEN 1 ELSE 0)

\* C6 witness: a NOT NULL field that is also a unique primary key has been rendered
C6_Witness ==
    /\ root = "TableField"
    /\ result.tag = "Ok"
    /\ self.options.null = Some(FALSE)
    /\ self.options.primary_key
    /\ self.options.unique
    /\ TokensAfterType(NotNullToken) = 1

\* C7: once the sink rejects a write made by a field render (or by the type
\* render it calls), that write is the last one made: nothing more is written,
\* the write is not retried, the field frame is gone and the failure of that
\* very write is what the field render handed to its caller.
C7_FieldFailureAbortsAtOnce ==
    \A p \in 1..Len(log) :
        (log[p].res < 0 /\ log[p].at \in FieldLabels) =>
            /\ p = Len(log)
            /\ fpc = "none"
            /\ result.tag # "Pending"
            /\ result.cause = p
            /\ (root \in {"TableField", "Field"} => result = Err(p))

\* C7 witness: a field render stopped at the rejected write of its nullability token
C7_Witness ==
    /\ root = "TableField"
    /\ result.tag = "Err"
    /\ Len(log) = 5
    /\ log[5].at = "f_null"
    /\ log[5].res < 0

\* C8 (as claimed): for every sink behaviour, a render that returns Ok has left
\* the entity's complete canonical text in the sink.
C8_OkMeansWholeText ==
    result.tag = "Ok" => writer = as_bytes(CanonicalText)

\* C9 (as claimed): at every point of a render the sink holds exactly the
\* concatenation of the writes accepted so far, and that is a prefix of the full
\* canonical text of the entity.
C9_SinkHoldsCanonicalPrefix ==
    /\ writer = ConcatAccepted(log)
    /\ IsPrefix(writer, as_bytes(CanonicalText))

\* the part of C9 that holds for every sink: no step removes or rewrites bytes
\* the sink already holds, and with every write taken whole or rejected the
\* sink holds a prefix of the canonical text
C9_NoStepRemovesBytes ==
    /\ [](writer = ConcatAccepted(log))
    /\ [](shorts = 0 => IsPrefix(writer, as_bytes(CanonicalText)))
    /\ [][IsPrefix(writer, writer')]_vars

\* C10: a table with no fields, rendered into a sink that accepts every write,
\* returns Ok with 'CREATE ' + optional kind + name + optional ' IF NOT EXISTS' +
\* ' (\n\t' + '\n)'; no field clause and no separator is ever written, the
\* closure (and its num_fields - 1) never runs, and the render never panics.
C10_EmptyTable ==
    (root = "TableDefn" /\ Len(self.fields) = 0) =>
        /\ result.tag # "Panic"
        /\ tpc \notin {"field", "sep"}
        /\ \A p \in 1..Len(log) : log[p].at \notin FieldLabels \cup {"sep"}
        /\ ((Returned /\ AllWhole) =>
              /\ result.tag = "Ok"
              /\ writer = as_bytes(TableHead(self) \o <<"\n", ")">>))

\* C10 witness: a table without fields and without a kind has been rendered
C10_Witness ==
    /\ root = "TableDefn"
    /\ Len(self.fields) = 0
    /\ self.options.kind = "None"
    /\ result.tag = "Ok"
    /\ AllWhole
    /\ Len(log) = 4

====
